---------------------------- MODULE Spec2Model ----------------------------
(***************************************************************************)
(* Address history: the coverage-gap engine (lib/gaps) and the file-backed *)
(* record store (lib/storage) with the routes that call them.              *)
(*                                                                         *)
(* SpecGaps  : getCoverageGaps applied to bounded address lists and ranges *)
(* SpecGapsUnparsed : the same, with dates no Date can hold                *)
(* Spec      : the store's handlers, one caller at a time                  *)
(* SpecConc  : the store's handlers interleaved at their await points      *)
(* SpecViews : the listing, the page's list and the two exports of a store *)
(* SpecToday : getLastThreeYearsRange as the clock moves on                *)
(***************************************************************************)
EXTENDS Integers, Sequences, FiniteSets, TLC

(***************************************************************************)
(* Bounds                                                                  *)
(***************************************************************************)
\* longest address list handed to getCoverageGaps
MaxAddrs == 2

\* handlers one run may start
MaxOps == 2

\* last value of the clock
MaxClock == 2

(***************************************************************************)
(* State                                                                   *)
(*   gRange, gAddresses, gGaps   the range and the address list handed to  *)
(*              getCoverageGaps, and what it returned                       *)
(*   storeFile  data/store.json: whether it exists, who is writing it now,  *)
(*              whether a writer left it incomplete, its last full content  *)
(*   emptyStore the module-level object readStore hands out on ENOENT       *)
(*   uploads    data/uploads: stored name -> bytes                          *)
(*   nextId     the ids randomUUID has not issued yet start here            *)
(*   clock      the time new Date() reads                                   *)
(*   ops        handlers started so far                                     *)
(*   proc       each caller's handler: position and locals                  *)
(*   pre        the snapshot and the uploads when the last handler started  *)
(*   unlinked   the stored names deleteUploadFile has been called for       *)
(***************************************************************************)
VARIABLES gRange, gAddresses, gGaps,
          storeFile, emptyStore, uploads, nextId, clock, ops, proc, pre,
          unlinked,
          vStore, response, sortedAddresses, today, lastThreeYears

gapVars == <<gRange, gAddresses, gGaps>>

viewVars == <<vStore, response, sortedAddresses, today, lastThreeYears>>

storeVars == <<storeFile, emptyStore, uploads, nextId, clock, ops, proc, pre,
               unlinked>>

vars == <<gRange, gAddresses, gGaps,
          storeFile, emptyStore, uploads, nextId, clock, ops, proc, pre,
          unlinked,
          vStore, response, sortedAddresses, today, lastThreeYears>>

(***************************************************************************)
(* Calendar dates.  A date string "Y-M-D" is the tuple <<Y, M, D>> of the   *)
(* numbers its three parts convert to; a part that is empty, not a number   *)
(* or zero is 0.  A Date object is [valid, day]: day counts days since      *)
(* 1970-01-01 (every Date built here is a UTC midnight).                    *)
(***************************************************************************)
Undefined == <<>>

NullDate == [valid |-> FALSE, nan |-> FALSE, day |-> 0]

\* new Date(NaN), an Invalid Date: an object (so not null) whose time is NaN
InvalidDate == [valid |-> TRUE, nan |-> TRUE, day |-> 0]

\* new Date(t): TimeClip makes a time beyond 100,000,000 days NaN
MkDate(n) ==
    IF n < -100000000 \/ n > 100000000 THEN InvalidDate
    ELSE [valid |-> TRUE, nan |-> FALSE, day |-> n]

\* a < b and a <= b on two Dates: false when either time is NaN
Before(a, b) == ~a.nan /\ ~b.nan /\ a.day < b.day

NotAfter(a, b) == ~a.nan /\ ~b.nan /\ a.day <= b.day

IsLeapYear(y) == (y % 4 = 0 /\ y % 100 /= 0) \/ y % 400 = 0

\* days from 1970-01-01 to the first of January of year y
DayFromYear(y) ==
    365 * (y - 1970) + ((y - 1969) \div 4) - ((y - 1901) \div 100)
        + ((y - 1601) \div 400)

\* days from the first of January to the first of month m0 (0-based)
DaysBeforeMonth(y, m0) ==
    LET cum == <<0, 31, 59, 90, 120, 151, 181, 212, 243, 273, 304, 334>>
    IN  cum[m0 + 1] + (IF m0 >= 2 /\ IsLeapYear(y) THEN 1 ELSE 0)

\* Date.UTC(year, monthIndex, day) in days: month and day overflow carry over
DateUTC(year, monthIndex, day) ==
    LET yr == IF year >= 0 /\ year <= 99 THEN 1900 + year ELSE year
        ym == yr + (monthIndex \div 12)
        mn == monthIndex % 12
    IN  DayFromYear(ym) + DaysBeforeMonth(ym, mn) + day - 1

getUTCFullYear(n) ==
    CHOOSE y \in (1970 + n \div 366)..(1971 + n \div 365) :
        DayFromYear(y) <= n /\ n < DayFromYear(y + 1)

getUTCMonth(n) ==
    LET y == getUTCFullYear(n)
        r == n - DayFromYear(y)
    IN  CHOOSE m0 \in 0..11 :
            /\ DaysBeforeMonth(y, m0) <= r
            /\ (m0 = 11 \/ r < DaysBeforeMonth(y, m0 + 1))

getUTCDate(n) ==
    LET y == getUTCFullYear(n)
    IN  n - DayFromYear(y) - DaysBeforeMonth(y, getUTCMonth(n)) + 1

parseDate(value) ==
    IF value = Undefined \/ value[1] = 0 \/ value[2] = 0 \/ value[3] = 0
    THEN NullDate
    ELSE MkDate(DateUTC(value[1], value[2] - 1, value[3]))

\* toISOString().slice(0, 10); toISOString throws on an Invalid Date
formatDate(date) ==
    IF date.nan THEN <<"RangeError">>
    ELSE <<getUTCFullYear(date.day), getUTCMonth(date.day) + 1,
           getUTCDate(date.day)>>

\* addDays that returns the date it was given
addDaysIgnored(date, days) == date

addDays(date, days) ==
    IF date.nan THEN InvalidDate
    ELSE MkDate(DateUTC(getUTCFullYear(date.day), getUTCMonth(date.day),
                        getUTCDate(date.day) + days))

clampDate(date, min, max) ==
    IF Before(date, min) THEN min
    ELSE IF Before(max, date) THEN max
    ELSE date

(***************************************************************************)
(* getCoverageGaps.  An address is [startDate, endDate, ...]; endDate may   *)
(* be Undefined.  A range is [start, end] of date strings.                  *)
(***************************************************************************)
\* the map callback: the clamped interval of one address, or no interval
toRange(address, range, startDate, endDate) ==
    LET start == parseDate(address.startDate)
        end   == parseDate(IF address.endDate = Undefined
                           THEN range.end ELSE address.endDate)
    IN  IF ~start.valid \/ ~end.valid \/ Before(end, start)
        THEN <<>>
        ELSE << [start |-> clampDate(start, startDate, endDate),
                 end   |-> clampDate(end, startDate, endDate)] >>

RECURSIVE mapRanges(_, _, _, _)
\* .map(...).filter(Boolean): the intervals in the addresses' order
mapRanges(addresses, range, startDate, endDate) ==
    IF addresses = <<>> THEN <<>>
    ELSE toRange(Head(addresses), range, startDate, endDate)
             \o mapRanges(Tail(addresses), range, startDate, endDate)

\* x placed after every element that does not start later (the sort is
\* stable; a NaN difference counts as 0)
insertByStart(sorted, x) ==
    LET later == {i \in 1..Len(sorted) : Before(x.start, sorted[i].start)}
        k     == IF later = {} THEN Len(sorted) + 1
                 ELSE CHOOSE i \in later : \A j \in later : i <= j
    IN  SubSeq(sorted, 1, k - 1) \o <<x>> \o SubSeq(sorted, k, Len(sorted))

RECURSIVE sortRanges(_)
\* .sort((a, b) => a.start.getTime() - b.start.getTime())
sortRanges(ranges) ==
    IF ranges = <<>> THEN <<>>
    ELSE insertByStart(sortRanges(SubSeq(ranges, 1, Len(ranges) - 1)),
                       ranges[Len(ranges)])

RECURSIVE mergeRangesAlwaysAssign(_, _)
\* mergeRanges without the test rangeItem.end > last.end
mergeRangesAlwaysAssign(ranges, merged) ==
    IF ranges = <<>> THEN merged
    ELSE LET rangeItem == Head(ranges)
             n         == Len(merged)
         IN  IF n = 0
             THEN mergeRangesAlwaysAssign(Tail(ranges), <<rangeItem>>)
             ELSE IF NotAfter(rangeItem.start, addDays(merged[n].end, 1))
                  THEN mergeRangesAlwaysAssign(Tail(ranges),
                           [merged EXCEPT ![n].end = rangeItem.end])
                  ELSE mergeRangesAlwaysAssign(Tail(ranges),
                                               Append(merged, rangeItem))

RECURSIVE mergeRanges(_, _)
\* the merge loop: ranges still to visit, runs merged so far
mergeRanges(ranges, merged) ==
    IF ranges = <<>> THEN merged
    ELSE LET rangeItem == Head(ranges)
             n         == Len(merged)
         IN  IF n = 0
             THEN mergeRanges(Tail(ranges), <<rangeItem>>)
             ELSE LET last          == merged[n]
                      contiguousEnd == addDays(last.end, 1)
                  IN  IF NotAfter(rangeItem.start, contiguousEnd)
                      THEN IF Before(last.end, rangeItem.end)
                           THEN mergeRanges(Tail(ranges),
                                    [merged EXCEPT ![n].end = rangeItem.end])
                           ELSE mergeRanges(Tail(ranges), merged)
                      ELSE mergeRanges(Tail(ranges), Append(merged, rangeItem))

\* leadingGap with the flags of the full-range gap
leadingGapBothFlags(merged, startDate) ==
    IF Before(startDate, merged[1].start)
    THEN << [start |-> formatDate(startDate),
             end |-> formatDate(addDays(merged[1].start, -1)),
             isLeading |-> TRUE, isTrailing |-> TRUE] >>
    ELSE <<>>

leadingGap(merged, startDate) ==
    IF Before(startDate, merged[1].start)
    THEN << [start |-> formatDate(startDate),
             end |-> formatDate(addDays(merged[1].start, -1)),
             isLeading |-> TRUE, isTrailing |-> FALSE] >>
    ELSE <<>>

RECURSIVE internalGapsToNextStart(_, _)
\* internalGaps with gapEnd = next.start, the day not taken off
internalGapsToNextStart(merged, index) ==
    IF index > Len(merged) - 1 THEN <<>>
    ELSE LET gapStart == addDays(merged[index].end, 1)
             gapEnd   == merged[index + 1].start
         IN  (IF NotAfter(gapStart, gapEnd)
              THEN << [start |-> formatDate(gapStart),
                       end |-> formatDate(gapEnd),
                       isLeading |-> FALSE, isTrailing |-> FALSE] >>
              ELSE <<>>)
             \o internalGapsToNextStart(merged, index + 1)

RECURSIVE internalGaps(_, _)
\* the loop over consecutive runs, from index (1-based) on
internalGaps(merged, index) ==
    IF index > Len(merged) - 1 THEN <<>>
    ELSE LET current  == merged[index]
             next     == merged[index + 1]
             gapStart == addDays(current.end, 1)
             gapEnd   == addDays(next.start, -1)
         IN  (IF NotAfter(gapStart, gapEnd)
              THEN << [start |-> formatDate(gapStart),
                       end |-> formatDate(gapEnd),
                       isLeading |-> FALSE, isTrailing |-> FALSE] >>
              ELSE <<>>)
             \o internalGaps(merged, index + 1)

\* trailingGap with <= in the place of <
trailingGapInclusive(merged, endDate) ==
    LET lastRange == merged[Len(merged)]
    IN  IF NotAfter(lastRange.end, endDate)
        THEN << [start |-> formatDate(addDays(lastRange.end, 1)),
                 end |-> formatDate(endDate),
                 isLeading |-> FALSE, isTrailing |-> TRUE] >>
        ELSE <<>>

trailingGap(merged, endDate) ==
    LET lastRange == merged[Len(merged)]
    IN  IF Before(lastRange.end, endDate)
        THEN << [start |-> formatDate(addDays(lastRange.end, 1)),
                 end |-> formatDate(endDate),
                 isLeading |-> FALSE, isTrailing |-> TRUE] >>
        ELSE <<>>

\* getCoverageGaps without the branch for an empty list of intervals
getCoverageGapsNoEmptyBranch(addresses, range) ==
    LET startDate == parseDate(range.start)
        endDate   == parseDate(range.end)
    IN  IF ~startDate.valid \/ ~endDate.valid \/ Before(endDate, startDate)
        THEN <<>>
        ELSE LET ranges == sortRanges(mapRanges(addresses, range,
                                                startDate, endDate))
             IN  IF Len(ranges) = 0
                 THEN <<>>
                 ELSE LET merged == mergeRanges(ranges, <<>>)
                      IN  leadingGap(merged, startDate)
                              \o internalGaps(merged, 1)
                              \o trailingGap(merged, endDate)

getCoverageGaps(addresses, range) ==
    LET startDate == parseDate(range.start)
        endDate   == parseDate(range.end)
    IN  IF ~startDate.valid \/ ~endDate.valid \/ Before(endDate, startDate)
        THEN <<>>
        ELSE LET ranges == sortRanges(mapRanges(addresses, range,
                                                startDate, endDate))
             IN  IF Len(ranges) = 0
                 THEN << [start |-> range.start, end |-> range.end,
                          isLeading |-> TRUE, isTrailing |-> TRUE] >>
                 ELSE LET merged == mergeRanges(ranges, <<>>)
                      IN  leadingGap(merged, startDate)
                              \o internalGaps(merged, 1)
                              \o trailingGap(merged, endDate)

(***************************************************************************)
(* The inputs of the gap engine: date strings around the leap day of 2024,  *)
(* one written with an overflowing day, one that does not parse.            *)
(***************************************************************************)
DateStrings ==
    { <<2024, 2, 27>>, <<2024, 2, 28>>, <<2024, 2, 29>>, <<2024, 3, 1>>,
      <<2024, 3, 2>>, <<2024, 2, 30>>, <<2024, 0, 15>> }

Ranges ==
    { [start |-> <<2024, 2, 27>>, end |-> <<2024, 3, 2>>],
      [start |-> <<2024, 2, 28>>, end |-> <<2024, 2, 28>>],
      [start |-> <<2024, 2, 28>>, end |-> <<2024, 2, 30>>],
      [start |-> <<2024, 3, 1>>,  end |-> <<2024, 2, 28>>],
      [start |-> <<2024, 0, 15>>, end |-> <<2024, 3, 1>>],
      [start |-> <<2024, 2, 28>>, end |-> <<2024, 0, 15>>] }

\* an address's dates are only ever parsed, so the overflowing day is
\* written once, as a start date; the last day of the longest range is the
\* end of an address without end date; an address may have no end date
StartDateStrings == DateStrings \ {<<2024, 3, 2>>}

EndDateStrings ==
    (DateStrings \ {<<2024, 2, 30>>, <<2024, 3, 2>>}) \cup {Undefined}

GapAddresses == [startDate : StartDateStrings, endDate : EndDateStrings]


GapInit ==
    /\ gRange \in Ranges
    /\ gAddresses = <<>>
    /\ gGaps = getCoverageGaps(<<>>, gRange)

\* the page recomputes the gaps of the list whenever an address joins it
GapAddAddress ==
    /\ Len(gAddresses) < MaxAddrs
    /\ \E a \in GapAddresses :
          /\ gAddresses' = Append(gAddresses, a)
          /\ gGaps' = getCoverageGaps(gAddresses', gRange)
    /\ UNCHANGED <<gRange, viewVars>>
    /\ UNCHANGED storeVars

GapNext == GapAddAddress

\* dates whose year lies beyond what a Date can hold: parseDate gives an
\* Invalid Date for them, not null
UnparsedAddresses ==
    [startDate : {<<2024, 2, 27>>, <<2024, 2, 28>>, <<2024, 2, 29>>,
                  <<2024, 0, 15>>, <<300000, 1, 1>>},
     endDate   : {<<300000, 1, 1>>, <<2024, 2, 28>>, <<2024, 3, 1>>,
                  Undefined}]

\* the ranges, and two with such a date as their start or their end
UnparsedRanges ==
    Ranges \cup
    { [start |-> <<300000, 1, 1>>, end |-> <<2024, 3, 2>>],
      [start |-> <<2024, 2, 27>>, end |-> <<300000, 1, 1>>] }

GapUnparsedInit ==
    /\ gRange \in UnparsedRanges
    /\ gAddresses = <<>>
    /\ gGaps = getCoverageGaps(<<>>, gRange)

\* the comparator of the sort is consistent on the list: all differences of
\* start times are numbers, or there are at most two addresses (a NaN
\* difference is read as 0); on other lists the order the sort gives is
\* implementation-defined
SortIsDefined(addresses) ==
    \/ Len(addresses) <= 2
    \/ \A i \in 1..Len(addresses) : ~parseDate(addresses[i].startDate).nan

GapAddUnparsed ==
    /\ Len(gAddresses) < MaxAddrs
    /\ \E a \in UnparsedAddresses :
          /\ SortIsDefined(Append(gAddresses, a))
          /\ gAddresses' = Append(gAddresses, a)
          /\ gGaps' = getCoverageGaps(gAddresses', gRange)
    /\ UNCHANGED <<gRange, viewVars>>
    /\ UNCHANGED storeVars

(***************************************************************************)
(* The record store.  A string is a tuple of one-character strings, a       *)
(* timestamp the value of the clock, an id the number randomUUID issued.    *)
(* An address is a record over AddressKeys; a key that is absent or holds   *)
(* undefined is Undefined (JSON.stringify drops it).                        *)
(***************************************************************************)
Procs == {"p1", "p2"}

EmptyString == <<"">>

AddressKeys == {"id", "line1", "startDate", "endDate", "createdAt", "updatedAt"}

\* the keys of Omit<Address, "id" | "createdAt" | "updatedAt">
InputKeys == {"line1", "startDate", "endDate"}

Get(obj, key) == IF key \in DOMAIN obj THEN obj[key] ELSE Undefined

\* { ...base, ...over }: every own key of over wins, undefined values included
Spread(base, over) ==
    [k \in DOMAIN base \cup DOMAIN over |->
        IF k \in DOMAIN over THEN over[k] ELSE base[k]]

\* an address as the snapshot holds it: an absent key reads undefined
AsAddress(obj) == [k \in AddressKeys |-> Get(obj, k)]

\* value || undefined
OrUndefined(value) ==
    IF value = EmptyString \/ value = Undefined THEN Undefined ELSE value

emptyStoreInitial == [addresses |-> <<>>, documents |-> <<>>]

\* path.extname(originalName): from the last dot on, unless there is no dot,
\* the name starts with its only dot, or the name is ".."
extname(originalName) ==
    LET dots == {i \in 1..Len(originalName) : originalName[i] = "."}
    IN  IF dots = {} \/ originalName = <<".", ".">> THEN <<>>
        ELSE LET k == CHOOSE i \in dots : \A j \in dots : j <= i
             IN  IF k = 1 THEN <<>>
                 ELSE SubSeq(originalName, k, Len(originalName))

\* resolveExtension that asks the mime type before the name
resolveExtensionMimeFirst(originalName, mimeType) ==
    IF mimeType = "application/pdf" THEN <<".", "p", "d", "f">>
    ELSE IF mimeType = "image/png" THEN <<".", "p", "n", "g">>
    ELSE IF mimeType = "image/jpeg" THEN <<".", "j", "p", "g">>
    ELSE extname(originalName)

resolveExtension(originalName, mimeType) ==
    LET ext == extname(originalName)
    IN  IF ext /= <<>> THEN ext
        ELSE IF mimeType = "application/pdf" THEN <<".", "p", "d", "f">>
        ELSE IF mimeType = "image/png" THEN <<".", "p", "n", "g">>
        ELSE IF mimeType = "image/jpeg" THEN <<".", "j", "p", "g">>
        ELSE <<>>

\* `${id}${extension}`
StoredName(id, originalName, mimeType) ==
    <<id>> \o resolveExtension(originalName, mimeType)

\* getUploadPath(document): the file of the uploads directory it names
getUploadPath(document) == document.storedName

\* array.filter(keep) for a set of ids to drop
RECURSIVE FilterSeq(_, _, _)
FilterSeq(seq, key, drop) ==
    IF seq = <<>> THEN <<>>
    ELSE (IF Head(seq)[key] = drop THEN <<>> ELSE <<Head(seq)>>)
             \o FilterSeq(Tail(seq), key, drop)

RECURSIVE SelectByKey(_, _, _)
SelectByKey(seq, key, want) ==
    IF seq = <<>> THEN <<>>
    ELSE (IF Head(seq)[key] = want THEN <<Head(seq)>> ELSE <<>>)
             \o SelectByKey(Tail(seq), key, want)

\* findIndex: the first index whose id is id, 0 when there is none
FindIndex(seq, id) ==
    LET hits == {i \in 1..Len(seq) : seq[i].id = id}
    IN  IF hits = {} THEN 0 ELSE CHOOSE i \in hits : \A j \in hits : i <= j

(***************************************************************************)
(* The store's initial states                                               *)
(***************************************************************************)
IdleProc ==
    [pc |-> "idle", op |-> "none", id |-> 0, arg |-> <<>>, data |-> "",
     stage |-> 0, aAlias |-> FALSE, dAlias |-> FALSE,
     addresses |-> <<>>, documents |-> <<>>, queue |-> <<>>,
     wdata |-> emptyStoreInitial, res |-> <<>>, ret |-> "none"]

\* store.addresses and store.documents as the handler of p sees them now
LAddresses(p) ==
    IF proc[p].aAlias THEN emptyStore.addresses ELSE proc[p].addresses

LDocuments(p) ==
    IF proc[p].dAlias THEN emptyStore.documents ELSE proc[p].documents

\* the file can be read and parsed: it exists and holds one complete write
Readable == storeFile.exists /\ storeFile.writers = {} /\ ~storeFile.torn

\* the persisted snapshot
Snapshot == storeFile.data

\* a snapshot a fresh process can find: two addresses, three documents
AddressA1 ==
    [id |-> 1, line1 |-> <<"a">>, startDate |-> <<2024, 2, 27>>,
     endDate |-> <<2024, 2, 28>>, createdAt |-> 0, updatedAt |-> 0]

AddressA2 ==
    [id |-> 2, line1 |-> <<"b">>, startDate |-> <<2024, 2, 29>>,
     endDate |-> Undefined, createdAt |-> 0, updatedAt |-> 0]

NewDocument(id, addressId, originalName, mimeType, now) ==
    [id |-> id, addressId |-> addressId, originalName |-> originalName,
     storedName |-> StoredName(id, originalName, mimeType),
     mimeType |-> mimeType, uploadedAt |-> now]

PopulatedStore ==
    [addresses |-> <<AddressA1, AddressA2>>,
     documents |->
        << NewDocument(3, 1, <<"x", ".", "p", "d", "f">>, "application/pdf", 0),
           NewDocument(4, 1, <<"y">>, "image/png", 0),
           NewDocument(5, 2, <<"z">>, "image/jpeg", 0) >>]

PopulatedUploads ==
    [n \in {PopulatedStore.documents[i].storedName : i \in 1..3} |-> "b1"]

StoreInit ==
    /\ emptyStore = emptyStoreInitial
    /\ clock = 1
    /\ ops = 0
    /\ proc = [p \in Procs |-> IdleProc]
    /\ \/ /\ storeFile = [exists |-> FALSE, writers |-> {}, torn |-> FALSE,
                          data |-> emptyStoreInitial]
          /\ uploads = <<>>
          /\ nextId = 1
       \/ /\ storeFile = [exists |-> TRUE, writers |-> {}, torn |-> FALSE,
                          data |-> PopulatedStore]
          /\ uploads = PopulatedUploads
          /\ nextId = 6
    /\ pre = [data |-> storeFile.data, uploads |-> uploads]
    /\ unlinked = {}

(***************************************************************************)
(* What callers send                                                        *)
(***************************************************************************)
AddressInputs ==
    { [line1 |-> <<"c">>, startDate |-> <<2024, 3, 1>>],
      [line1 |-> <<"d">>, startDate |-> <<2024, 2, 27>>,
       endDate |-> <<2024, 3, 2>>] }

\* partial updates handed to updateAddress directly
UpdateInputs ==
    { [line1 |-> <<"e">>],
      [startDate |-> <<2024, 2, 28>>, endDate |-> <<2024, 3, 1>>] }

\* JSON bodies of PUT /api/addresses/[id]: the form's (every field, an
\* empty endDate), and one that omits fields
PutBodies ==
    { [line1 |-> <<"g">>, startDate |-> <<2024, 2, 28>>,
       endDate |-> EmptyString],
      [line1 |-> <<"h">>] }

UploadFiles ==
    { [name |-> <<"s", ".", "p", "n", "g">>, type |-> "image/png",
       data |-> "b1"],
      [name |-> <<"t">>, type |-> "application/pdf", data |-> "b2"] }

\* ids a caller can name: those of the snapshot, those the snapshot held
\* before the last operation (deleted since), and one that never existed
AddressIds ==
    {Snapshot.addresses[i].id : i \in 1..Len(Snapshot.addresses)}
        \cup {pre.data.addresses[i].id : i \in 1..Len(pre.data.addresses)}
        \cup {0}

DocumentIds == {Snapshot.documents[i].id : i \in 1..Len(Snapshot.documents)} \cup {0}

(***************************************************************************)
(* Handlers.  Begin: the synchronous start of a handler up to its first    *)
(* await (readStore -> ensureDataDirs).  The steps that follow are the      *)
(* stretches between awaits.                                                *)
(***************************************************************************)
FirstCaller == "p1"

\* callers are interchangeable: the first handler of a run is FirstCaller's
Begin(p, op, id, arg, data) ==
    /\ proc[p].pc = "idle"
    /\ ops < MaxOps
    /\ ops = 0 => p = FirstCaller
    /\ ops' = ops + 1
    /\ proc' = [proc EXCEPT ![p] =
                   [IdleProc EXCEPT !.pc = "read", !.op = op, !.id = id,
                                    !.arg = arg, !.data = data, !.stage = 1,
                                    !.ret = "pending"]]
    /\ pre' = [data |-> Snapshot, uploads |-> uploads]
    /\ UNCHANGED <<gapVars, viewVars, unlinked>>
    /\ UNCHANGED <<storeFile, emptyStore, uploads, nextId, clock>>

\* the handler of p returns (or throws) ret with result res; its locals go
Return(p, ret, res) ==
    [proc EXCEPT ![p] = [IdleProc EXCEPT !.op = proc[p].op,
                                         !.ret = ret, !.res = res]]

\* POST /api/addresses -> createAddress(input)
StartCreateAddress(p) ==
    \E input \in AddressInputs : Begin(p, "createAddress", 0, input, "")

\* updateAddress(id, updates) called directly
StartUpdateAddress(p) ==
    \E id \in AddressIds, updates \in UpdateInputs :
        Begin(p, "updateAddress", id, updates, "")

\* the updates object PUT builds from the request body
putUpdates(body) ==
    [line1     |-> Get(body, "line1"),
     startDate |-> Get(body, "startDate"),
     endDate   |-> OrUndefined(Get(body, "endDate"))]

\* PUT /api/addresses/[id] -> updateAddress(params.id, updates); arg is the body
StartPut(p) ==
    \E id \in AddressIds, body \in PutBodies :
        Begin(p, "put", id, body, "")

\* DELETE /api/addresses/[id] -> deleteAddress(params.id)
StartDeleteAddress(p) ==
    \E id \in AddressIds : Begin(p, "deleteAddress", id, <<>>, "")

\* POST /api/documents: readStore, check the address, createDocument
StartUpload(p) ==
    \E id \in AddressIds, file \in UploadFiles :
        Begin(p, "upload", id, file, file.data)

\* DELETE /api/documents/[id] -> deleteDocument(params.id)
StartDeleteDocument(p) ==
    \E id \in DocumentIds : Begin(p, "deleteDocument", id, <<>>, "")

\* GET /api/documents/[id] -> getDocumentById(params.id)
StartGetDocument(p) ==
    \E id \in DocumentIds : Begin(p, "getDocument", id, <<>>, "")

(***************************************************************************)
(* readStore                                                                *)
(***************************************************************************)
\* fs.readFile + JSON.parse: a fresh copy, ENOENT, or a parse error
ReadStore(p) ==
    /\ proc[p].pc = "read"
    /\ IF ~storeFile.exists
       THEN proc' = [proc EXCEPT ![p].pc = "boot"]
       ELSE IF Readable
       THEN proc' = [proc EXCEPT ![p].pc = "body",
                                 ![p].aAlias = FALSE, ![p].dAlias = FALSE,
                                 ![p].addresses = Snapshot.addresses,
                                 ![p].documents = Snapshot.documents]
       ELSE proc' = Return(p, "SyntaxError", <<>>)
    /\ UNCHANGED <<gapVars, viewVars, unlinked>>
    /\ UNCHANGED <<storeFile, emptyStore, uploads, nextId, clock, ops, pre>>

\* writeStore(emptyStore): JSON.stringify and the file opened for writing
BootBegin(p) ==
    /\ proc[p].pc = "boot"
    /\ proc' = [proc EXCEPT ![p].pc = "bootw", ![p].wdata = emptyStore]
    /\ storeFile' = [storeFile EXCEPT !.exists = TRUE, !.torn = FALSE,
                                      !.writers = @ \cup {p}]
    /\ UNCHANGED <<gapVars, viewVars, unlinked>>
    /\ UNCHANGED <<emptyStore, uploads, nextId, clock, ops, pre>>

\* the write completes; readStore returns emptyStore itself
BootEnd(p) ==
    /\ proc[p].pc = "bootw"
    /\ storeFile' = [storeFile EXCEPT !.writers = @ \ {p}, !.torn = FALSE,
                                      !.data = proc[p].wdata]
    /\ proc' = [proc EXCEPT ![p].pc = "body",
                            ![p].aAlias = TRUE, ![p].dAlias = TRUE]
    /\ UNCHANGED <<gapVars, viewVars, unlinked>>
    /\ UNCHANGED <<emptyStore, uploads, nextId, clock, ops, pre>>

(***************************************************************************)
(* writeStore                                                               *)
(***************************************************************************)
\* after ensureDataDirs: JSON.stringify(store), the file opened and truncated
WriteBegin(p) ==
    /\ proc[p].pc = "wbegin"
    /\ proc' = [proc EXCEPT ![p].pc = "wend",
                            ![p].wdata = [addresses |-> LAddresses(p),
                                          documents |-> LDocuments(p)]]
    /\ storeFile' = [storeFile EXCEPT !.exists = TRUE, !.torn = FALSE,
                                      !.writers = @ \cup {p}]
    /\ UNCHANGED <<gapVars, viewVars, unlinked>>
    /\ UNCHANGED <<emptyStore, uploads, nextId, clock, ops, pre>>

\* WriteEnd that stores only the addresses its caller changed, over the
\* snapshot as it is now
WriteEndMerging(p) ==
    /\ proc[p].pc = "wend"
    /\ storeFile' =
          [storeFile EXCEPT
              !.writers = @ \ {p}, !.torn = FALSE,
              !.data = IF Len(proc[p].wdata.addresses) = Len(Snapshot.addresses)
                          /\ proc[p].res /= <<>>
                       THEN [Snapshot EXCEPT !.addresses =
                                [i \in 1..Len(Snapshot.addresses) |->
                                    IF Snapshot.addresses[i].id
                                           = proc[p].res[1].id
                                    THEN proc[p].res[1]
                                    ELSE Snapshot.addresses[i]]]
                       ELSE proc[p].wdata]
    /\ proc' = Return(p, "ok", proc[p].res)
    /\ UNCHANGED <<gapVars, viewVars, unlinked>>
    /\ UNCHANGED <<emptyStore, uploads, nextId, clock, ops, pre>>

\* the write completes and the handler returns its result
WriteEnd(p) ==
    /\ proc[p].pc = "wend"
    /\ storeFile' = [storeFile EXCEPT !.writers = @ \ {p}, !.torn = FALSE,
                                      !.data = proc[p].wdata]
    /\ proc' = Return(p, "ok", proc[p].res)
    /\ UNCHANGED <<gapVars, viewVars, unlinked>>
    /\ UNCHANGED <<emptyStore, uploads, nextId, clock, ops, pre>>

\* new Date(): the times the clock can show now (it may have advanced)
Now == clock..(IF clock < MaxClock THEN clock + 1 ELSE clock)

(***************************************************************************)
(* The handlers after readStore returned                                    *)
(***************************************************************************)
\* BodyCreateAddress with the id taken from the length of the list
BodyCreateAddressCountId(p) ==
    /\ proc[p].pc = "body" /\ proc[p].op = "createAddress"
    /\ \E t \in Now :
        LET address == AsAddress(Spread([id |-> Len(LAddresses(p)) + 1,
                                         createdAt |-> t, updatedAt |-> t],
                                        proc[p].arg))
            value   == Append(LAddresses(p), address)
        IN  /\ emptyStore' = IF proc[p].aAlias
                             THEN [emptyStore EXCEPT !.addresses = value]
                             ELSE emptyStore
            /\ proc' = [proc EXCEPT ![p].pc = "wbegin",
                                    ![p].addresses =
                                        IF proc[p].aAlias THEN @ ELSE value,
                                    ![p].res = <<address>>]
            /\ clock' = t
    /\ nextId' = nextId + 1
    /\ UNCHANGED <<gapVars, viewVars, unlinked>>
    /\ UNCHANGED <<storeFile, uploads, ops, pre>>

\* BodyCreateAddress with unshift in the place of push
BodyCreateAddressUnshift(p) ==
    /\ proc[p].pc = "body" /\ proc[p].op = "createAddress"
    /\ \E t \in Now :
        LET address == AsAddress(Spread([id |-> nextId, createdAt |-> t,
                                         updatedAt |-> t], proc[p].arg))
            value   == <<address>> \o LAddresses(p)
        IN  /\ emptyStore' = IF proc[p].aAlias
                             THEN [emptyStore EXCEPT !.addresses = value]
                             ELSE emptyStore
            /\ proc' = [proc EXCEPT ![p].pc = "wbegin",
                                    ![p].addresses =
                                        IF proc[p].aAlias THEN @ ELSE value,
                                    ![p].res = <<address>>]
            /\ clock' = t
    /\ nextId' = nextId + 1
    /\ UNCHANGED <<gapVars, viewVars, unlinked>>
    /\ UNCHANGED <<storeFile, uploads, ops, pre>>

\* createAddress: the record built, pushed onto store.addresses
BodyCreateAddress(p) ==
    /\ proc[p].pc = "body" /\ proc[p].op = "createAddress"
    /\ \E t \in Now :
        LET address == AsAddress(Spread([id |-> nextId, createdAt |-> t,
                                         updatedAt |-> t], proc[p].arg))
            value   == Append(LAddresses(p), address)
        IN  /\ emptyStore' = IF proc[p].aAlias
                             THEN [emptyStore EXCEPT !.addresses = value]
                             ELSE emptyStore
            /\ proc' = [proc EXCEPT ![p].pc = "wbegin",
                                    ![p].addresses =
                                        IF proc[p].aAlias THEN @ ELSE value,
                                    ![p].res = <<address>>]
            /\ clock' = t
    /\ nextId' = nextId + 1
    /\ UNCHANGED <<gapVars, viewVars, unlinked>>
    /\ UNCHANGED <<storeFile, uploads, ops, pre>>

\* the updates updateAddress receives from the handler of p
Updates(p) ==
    IF proc[p].op = "put" THEN putUpdates(proc[p].arg) ELSE proc[p].arg

\* updatedAddress stamping createdAt as well
updatedAddressRestamped(old, updates, now) ==
    AsAddress(Spread(Spread(old, updates),
                     [createdAt |-> now, updatedAt |-> now]))

\* the record updateAddress builds for the address at index
updatedAddress(old, updates, now) ==
    AsAddress(Spread(Spread(old, updates), [updatedAt |-> now]))

\* BodyUpdateAddress that stores the updates as a new record when the id is
\* not found
BodyUpdateAddressUpsert(p) ==
    /\ proc[p].pc = "body" /\ proc[p].op \in {"updateAddress", "put"}
    /\ \E t \in Now :
        LET index   == FindIndex(LAddresses(p), proc[p].id)
            old     == IF index = 0
                       THEN [id |-> proc[p].id, createdAt |-> t]
                       ELSE LAddresses(p)[index]
            updated == updatedAddress(old, Updates(p), t)
            value   == IF index = 0 THEN Append(LAddresses(p), updated)
                       ELSE [LAddresses(p) EXCEPT ![index] = updated]
        IN  /\ emptyStore' = IF proc[p].aAlias
                             THEN [emptyStore EXCEPT !.addresses = value]
                             ELSE emptyStore
            /\ proc' = [proc EXCEPT ![p].pc = "wbegin",
                                    ![p].addresses =
                                        IF proc[p].aAlias THEN @ ELSE value,
                                    ![p].res = <<updated>>]
            /\ clock' = t
    /\ UNCHANGED <<gapVars, viewVars, unlinked>>
    /\ UNCHANGED <<storeFile, uploads, nextId, ops, pre>>

\* updateAddress: findIndex, null when absent, else the merged record stored
BodyUpdateAddress(p) ==
    /\ proc[p].pc = "body" /\ proc[p].op \in {"updateAddress", "put"}
    /\ LET index == FindIndex(LAddresses(p), proc[p].id)
       IN  IF index = 0
           THEN /\ proc' = Return(p, "null", <<>>)
                /\ UNCHANGED <<emptyStore, clock>>
           ELSE \E t \in Now :
                LET updated == updatedAddress(LAddresses(p)[index],
                                              Updates(p), t)
                    value   == [LAddresses(p) EXCEPT ![index] = updated]
                IN  /\ emptyStore' = IF proc[p].aAlias
                                     THEN [emptyStore EXCEPT !.addresses = value]
                                     ELSE emptyStore
                    /\ proc' = [proc EXCEPT ![p].pc = "wbegin",
                                            ![p].addresses =
                                                IF proc[p].aAlias THEN @ ELSE value,
                                            ![p].res = <<updated>>]
                    /\ clock' = t
    /\ UNCHANGED <<gapVars, viewVars, unlinked>>
    /\ UNCHANGED <<storeFile, uploads, nextId, ops, pre>>

\* BodyDeleteAddress that removes the address and leaves its documents
BodyDeleteAddressNoCascade(p) ==
    /\ proc[p].pc = "body" /\ proc[p].op = "deleteAddress"
    /\ proc' = [proc EXCEPT ![p].pc = "wbegin",
                            ![p].aAlias = FALSE, ![p].dAlias = FALSE,
                            ![p].addresses =
                                FilterSeq(LAddresses(p), "id", proc[p].id),
                            ![p].documents = LDocuments(p)]
    /\ UNCHANGED <<gapVars, viewVars, unlinked>>
    /\ UNCHANGED <<storeFile, emptyStore, uploads, nextId, clock, ops, pre>>

\* BodyDeleteAddress with splice(findIndex(...), 1) in the place of the
\* filter: index -1 takes the last address away
BodyDeleteAddressSplice(p) ==
    /\ proc[p].pc = "body" /\ proc[p].op = "deleteAddress"
    /\ LET index == FindIndex(LAddresses(p), proc[p].id)
           at    == IF index = 0 THEN Len(LAddresses(p)) ELSE index
           remainingAddresses ==
               [i \in 1..(Len(LAddresses(p)) - (IF at = 0 THEN 0 ELSE 1)) |->
                   IF i < at THEN LAddresses(p)[i] ELSE LAddresses(p)[i + 1]]
           removedDocuments   == SelectByKey(LDocuments(p), "addressId", proc[p].id)
           remainingDocuments == FilterSeq(LDocuments(p), "addressId", proc[p].id)
       IN  proc' = [proc EXCEPT ![p].pc = IF removedDocuments = <<>>
                                          THEN "wbegin" ELSE "unlink",
                                ![p].aAlias = FALSE, ![p].dAlias = FALSE,
                                ![p].addresses = remainingAddresses,
                                ![p].documents = remainingDocuments,
                                ![p].queue = removedDocuments]
    /\ UNCHANGED <<gapVars, viewVars, unlinked>>
    /\ UNCHANGED <<storeFile, emptyStore, uploads, nextId, clock, ops, pre>>

\* deleteAddress: the three filters; the object to write is a new one
BodyDeleteAddress(p) ==
    /\ proc[p].pc = "body" /\ proc[p].op = "deleteAddress"
    /\ LET remainingAddresses == FilterSeq(LAddresses(p), "id", proc[p].id)
           removedDocuments   == SelectByKey(LDocuments(p), "addressId", proc[p].id)
           remainingDocuments == FilterSeq(LDocuments(p), "addressId", proc[p].id)
       IN  proc' = [proc EXCEPT ![p].pc = IF removedDocuments = <<>>
                                          THEN "wbegin" ELSE "unlink",
                                ![p].aAlias = FALSE, ![p].dAlias = FALSE,
                                ![p].addresses = remainingAddresses,
                                ![p].documents = remainingDocuments,
                                ![p].queue = removedDocuments]
    /\ UNCHANGED <<gapVars, viewVars, unlinked>>
    /\ UNCHANGED <<storeFile, emptyStore, uploads, nextId, clock, ops, pre>>

\* BodyDeleteDocument whose find takes the first document of the list
BodyDeleteDocumentFirst(p) ==
    /\ proc[p].pc = "body" /\ proc[p].op = "deleteDocument"
    /\ LET hits == SelectByKey(LDocuments(p), "id", proc[p].id)
       IN  IF hits = <<>>
           THEN proc' = Return(p, "null", <<>>)
           ELSE proc' = [proc EXCEPT ![p].pc = "unlink",
                                     ![p].queue = <<Head(LDocuments(p))>>,
                                     ![p].res = <<Head(LDocuments(p))>>]
    /\ UNCHANGED <<gapVars, viewVars, unlinked>>
    /\ UNCHANGED <<storeFile, emptyStore, uploads, nextId, clock, ops, pre>>

\* deleteDocument: find, null when absent, else on to deleteUploadFile
BodyDeleteDocument(p) ==
    /\ proc[p].pc = "body" /\ proc[p].op = "deleteDocument"
    /\ LET hits == SelectByKey(LDocuments(p), "id", proc[p].id)
       IN  IF hits = <<>>
           THEN proc' = Return(p, "null", <<>>)
           ELSE proc' = [proc EXCEPT ![p].pc = "unlink",
                                     ![p].queue = <<Head(hits)>>,
                                     ![p].res = <<Head(hits)>>]
    /\ UNCHANGED <<gapVars, viewVars, unlinked>>
    /\ UNCHANGED <<storeFile, emptyStore, uploads, nextId, clock, ops, pre>>

\* the uploads directory without the file name
RemoveFile(files, name) == [n \in (DOMAIN files) \ {name} |-> files[n]]

\* deleteUploadFile(doc) for the next document of the loop: the file is
\* unlinked, or is absent already (ENOENT is swallowed); then the loop goes
\* on, or the handler goes on to writeStore
Unlink(p) ==
    /\ proc[p].pc = "unlink"
    /\ uploads' = RemoveFile(uploads, getUploadPath(Head(proc[p].queue)))
    /\ unlinked' = unlinked \cup {getUploadPath(Head(proc[p].queue))}
    /\ LET rest == Tail(proc[p].queue)
       IN  IF rest /= <<>>
           THEN proc' = [proc EXCEPT ![p].queue = rest]
           ELSE IF proc[p].op = "deleteDocument"
           THEN proc' = [proc EXCEPT ![p].pc = "wbegin", ![p].queue = rest,
                                     ![p].dAlias = FALSE,
                                     ![p].documents =
                                         FilterSeq(LDocuments(p), "id", proc[p].id)]
           ELSE proc' = [proc EXCEPT ![p].pc = "wbegin", ![p].queue = rest]
    /\ UNCHANGED <<gapVars, viewVars>>
    /\ UNCHANGED <<storeFile, emptyStore, nextId, clock, ops, pre>>

\* fs.unlink fails with an error other than ENOENT (EACCES, EPERM, EBUSY):
\* deleteUploadFile rethrows it and the handler throws
UnlinkError(p) ==
    /\ proc[p].pc = "unlink"
    /\ getUploadPath(Head(proc[p].queue)) \in DOMAIN uploads
    /\ proc' = Return(p, "unlinkError", <<>>)
    /\ unlinked' = unlinked \cup {getUploadPath(Head(proc[p].queue))}
    /\ UNCHANGED <<gapVars, viewVars>>
    /\ UNCHANGED <<storeFile, emptyStore, uploads, nextId, clock, ops, pre>>

\* BodyUploadCheck without the look-up of the address
BodyUploadCheckSkipped(p) ==
    /\ proc[p].pc = "body" /\ proc[p].op = "upload" /\ proc[p].stage = 1
    /\ proc' = [proc EXCEPT ![p].pc = "read", ![p].stage = 2]
    /\ UNCHANGED <<gapVars, viewVars, unlinked>>
    /\ UNCHANGED <<storeFile, emptyStore, uploads, nextId, clock, ops, pre>>

\* POST /api/documents after its own readStore: 404, or createDocument,
\* which starts with a readStore of its own
BodyUploadCheck(p) ==
    /\ proc[p].pc = "body" /\ proc[p].op = "upload" /\ proc[p].stage = 1
    /\ IF FindIndex(LAddresses(p), proc[p].id) = 0
       THEN proc' = Return(p, "404", <<>>)
       ELSE proc' = [proc EXCEPT ![p].pc = "read", ![p].stage = 2]
    /\ UNCHANGED <<gapVars, viewVars, unlinked>>
    /\ UNCHANGED <<storeFile, emptyStore, uploads, nextId, clock, ops, pre>>

\* createDocument: the id and the stored name, then on to fs.writeFile
BodyCreateDocument(p) ==
    /\ proc[p].pc = "body" /\ proc[p].op = "upload" /\ proc[p].stage = 2
    /\ proc' = [proc EXCEPT ![p].pc = "fwrite",
                            ![p].res = <<NewDocument(nextId, proc[p].id,
                                                     proc[p].arg.name,
                                                     proc[p].arg.type, 0)>>]
    /\ nextId' = nextId + 1
    /\ UNCHANGED <<gapVars, viewVars, unlinked>>
    /\ UNCHANGED <<storeFile, emptyStore, uploads, clock, ops, pre>>

\* WriteUpload that pushes the record and has not written the file
WriteUploadRecordOnly(p) ==
    /\ proc[p].pc = "fwrite"
    /\ \E t \in Now :
        LET document == [proc[p].res[1] EXCEPT !.uploadedAt = t]
            value    == Append(LDocuments(p), document)
        IN  /\ emptyStore' = IF proc[p].dAlias
                             THEN [emptyStore EXCEPT !.documents = value]
                             ELSE emptyStore
            /\ proc' = [proc EXCEPT ![p].pc = "wbegin",
                                    ![p].documents =
                                        IF proc[p].dAlias THEN @ ELSE value,
                                    ![p].res = <<document>>]
            /\ clock' = t
    /\ UNCHANGED <<gapVars, viewVars, unlinked>>
    /\ UNCHANGED <<storeFile, uploads, nextId, ops, pre>>

\* the bytes are on disk; the record is stamped and pushed onto
\* store.documents
WriteUpload(p) ==
    /\ proc[p].pc = "fwrite"
    /\ \E t \in Now :
        LET document == [proc[p].res[1] EXCEPT !.uploadedAt = t]
            value    == Append(LDocuments(p), document)
        IN  /\ uploads' = [n \in (DOMAIN uploads) \cup {document.storedName} |->
                              IF n = document.storedName
                              THEN proc[p].data ELSE uploads[n]]
            /\ emptyStore' = IF proc[p].dAlias
                             THEN [emptyStore EXCEPT !.documents = value]
                             ELSE emptyStore
            /\ proc' = [proc EXCEPT ![p].pc = "wbegin",
                                    ![p].documents =
                                        IF proc[p].dAlias THEN @ ELSE value,
                                    ![p].res = <<document>>]
            /\ clock' = t
    /\ UNCHANGED <<gapVars, viewVars, unlinked>>
    /\ UNCHANGED <<storeFile, nextId, ops, pre>>

\* getDocumentById: the record or null
BodyGetDocument(p) ==
    /\ proc[p].pc = "body" /\ proc[p].op = "getDocument"
    /\ LET hits == SelectByKey(LDocuments(p), "id", proc[p].id)
       IN  proc' = IF hits = <<>> THEN Return(p, "null", <<>>)
                   ELSE Return(p, "ok", <<Head(hits)>>)
    /\ UNCHANGED <<gapVars, viewVars, unlinked>>
    /\ UNCHANGED <<storeFile, emptyStore, uploads, nextId, clock, ops, pre>>

\* mkdir or writeFile throws, or the process stops there; a write under way
\* stays incomplete
Fail(p) ==
    /\ proc[p].pc \in {"boot", "bootw", "fwrite", "wbegin", "wend"}
    /\ storeFile' = IF p \in storeFile.writers
                    THEN [storeFile EXCEPT !.writers = @ \ {p}, !.torn = TRUE]
                    ELSE storeFile
    /\ proc' = Return(p, "error", <<>>)
    /\ UNCHANGED <<gapVars, viewVars, unlinked>>
    /\ UNCHANGED <<emptyStore, uploads, nextId, clock, ops, pre>>

Start(p) ==
    \/ StartCreateAddress(p)
    \/ StartUpdateAddress(p)
    \/ StartPut(p)
    \/ StartDeleteAddress(p)
    \/ StartUpload(p)
    \/ StartDeleteDocument(p)
    \/ StartGetDocument(p)

Step(p) ==
    \/ ReadStore(p)
    \/ BootBegin(p)
    \/ BootEnd(p)
    \/ BodyCreateAddress(p)
    \/ BodyUpdateAddress(p)
    \/ BodyDeleteAddress(p)
    \/ BodyDeleteDocument(p)
    \/ Unlink(p)
    \/ UnlinkError(p)
    \/ BodyUploadCheck(p)
    \/ BodyCreateDocument(p)
    \/ WriteUpload(p)
    \/ BodyGetDocument(p)
    \/ WriteBegin(p)
    \/ WriteEnd(p)
    \/ Fail(p)

(***************************************************************************)
(* The listing, the page and the two exports.  vStore is what readStore    *)
(* hands a route, response what the last route sent, sortedAddresses the   *)
(* list the page shows; the export range is gRange.  today and             *)
(* lastThreeYears are the date handed to getLastThreeYearsRange and what   *)
(* it returned.                                                            *)
(***************************************************************************)
\* documents of the store a route reads
MaxDocs == 1

\* days the clock is followed from each starting day
MaxDays == 12

\* a.localeCompare(b) on two dates written YYYY-MM-DD, by sign
localeCompare(a, b) ==
    IF a = b THEN 0
    ELSE LET i == CHOOSE k \in 1..3 :
                      a[k] /= b[k] /\ \A j \in 1..(k - 1) : a[j] = b[j]
         IN  IF a[i] < b[i] THEN -1 ELSE 1

\* the comparator of sortAddresses; createdAt is an ISO timestamp, ordered
\* as the clock value it was taken from
compareAddresses(a, b) ==
    IF a.startDate = b.startDate THEN a.createdAt - b.createdAt
    ELSE localeCompare(a.startDate, b.startDate)

insertAddress(sorted, x) ==
    LET later == {i \in 1..Len(sorted) : compareAddresses(x, sorted[i]) < 0}
        k     == IF later = {} THEN Len(sorted) + 1
                 ELSE CHOOSE i \in later : \A j \in later : i <= j
    IN  SubSeq(sorted, 1, k - 1) \o <<x>> \o SubSeq(sorted, k, Len(sorted))

insertByStartDate(sorted, x) ==
    LET later == {i \in 1..Len(sorted) :
                      localeCompare(x.startDate, sorted[i].startDate) < 0}
        k     == IF later = {} THEN Len(sorted) + 1
                 ELSE CHOOSE i \in later : \A j \in later : i <= j
    IN  SubSeq(sorted, 1, k - 1) \o <<x>> \o SubSeq(sorted, k, Len(sorted))

RECURSIVE sortAddressesByStartDate(_)
\* sortAddresses that compares the start dates only
sortAddressesByStartDate(addresses) ==
    IF addresses = <<>> THEN <<>>
    ELSE insertByStartDate(
             sortAddressesByStartDate(SubSeq(addresses, 1, Len(addresses) - 1)),
             addresses[Len(addresses)])

RECURSIVE sortAddresses(_)
\* [...addresses].sort(...): a new list, the sort is stable
sortAddresses(addresses) ==
    IF addresses = <<>> THEN <<>>
    ELSE insertAddress(sortAddresses(SubSeq(addresses, 1, Len(addresses) - 1)),
                       addresses[Len(addresses)])

RECURSIVE pageSortedAddresses(_)
\* [...addresses].sort((a, b) => a.startDate.localeCompare(b.startDate))
pageSortedAddresses(addresses) ==
    IF addresses = <<>> THEN <<>>
    ELSE insertByStartDate(
             pageSortedAddresses(SubSeq(addresses, 1, Len(addresses) - 1)),
             addresses[Len(addresses)])

\* the ZIP export's filter
addressOverlapsRange(startDate, endDate, rangeStart, rangeEnd) ==
    LET addressStart == parseDate(startDate)
        addressEnd   == parseDate(IF endDate = Undefined THEN rangeEnd
                                  ELSE endDate)
        start        == parseDate(rangeStart)
        end          == parseDate(rangeEnd)
    IN  IF ~addressStart.valid \/ ~addressEnd.valid \/ ~start.valid
              \/ ~end.valid
        THEN FALSE
        ELSE NotAfter(addressStart, end) /\ NotAfter(start, addressEnd)

\* the PDF export's filter
addressOverlapsRangePdf(startDate, endDate, rangeStart, rangeEnd) ==
    LET addressStart == parseDate(startDate)
        addressEnd   == parseDate(IF endDate = Undefined THEN rangeEnd
                                  ELSE endDate)
        start        == parseDate(rangeStart)
        end          == parseDate(rangeEnd)
    IN  IF ~addressStart.valid \/ ~addressEnd.valid \/ ~start.valid
              \/ ~end.valid
        THEN FALSE
        ELSE NotAfter(addressStart, end) /\ NotAfter(start, addressEnd)

\* store.documents.filter((doc) => addressIds.has(doc.addressId))
documentsOf(store, addresses) ==
    LET addressIds == {addresses[i].id : i \in 1..Len(addresses)}
        has(doc)   == doc.addressId \in addressIds
    IN  SelectSeq(store.documents, has)

zipFilteredAddresses(store, start, end) ==
    LET overlaps(address) ==
            addressOverlapsRange(address.startDate, address.endDate, start, end)
    IN  sortAddresses(SelectSeq(store.addresses, overlaps))

pdfFilteredAddresses(store, start, end) ==
    LET overlaps(address) ==
            addressOverlapsRangePdf(address.startDate, address.endDate,
                                    start, end)
    IN  sortAddresses(SelectSeq(store.addresses, overlaps))

\* subtractYears that lets a day the target month lacks run into the next
subtractYearsOverflowing(date, years) ==
    MkDate(DateUTC(getUTCFullYear(date.day) - years, getUTCMonth(date.day),
                   getUTCDate(date.day)))

subtractYears(date, years) ==
    LET year      == getUTCFullYear(date.day) - years
        month     == getUTCMonth(date.day)
        day       == getUTCDate(date.day)
        candidate == MkDate(DateUTC(year, month, day))
    IN  IF getUTCMonth(candidate.day) /= month
        THEN MkDate(DateUTC(year, month + 1, 0))
        ELSE candidate

getLastThreeYearsRange(now) ==
    LET end   == MkDate(DateUTC(getUTCFullYear(now.day), getUTCMonth(now.day),
                                getUTCDate(now.day)))
        start == subtractYears(end, 3)
    IN  [start |-> formatDate(start), end |-> formatDate(end)]

\* what store.json holds: any list of addresses, each with its start date,
\* end date and creation time
ViewAddresses ==
    [startDate : {<<2024, 2, 27>>, <<2024, 3, 1>>},
     endDate   : {<<2024, 2, 28>>, Undefined},
     createdAt : 0..1]

NoResponse == [route |-> "none", addresses |-> <<>>, documents |-> <<>>]

\* crypto.randomUUID() for an address and for a document: ids nothing has yet
FreshAddressId == <<"a", Len(vStore.addresses) + 1>>

FreshDocumentId == <<"d", Len(vStore.documents) + 1>>

\* the days the clock starts on, around the ends of February and of a year
TodayStarts ==
    { parseDate(<<2024, 2, 27>>).day, parseDate(<<2023, 12, 25>>).day,
      parseDate(<<2025, 2, 24>>).day, parseDate(<<2027, 2, 24>>).day,
      parseDate(<<2028, 2, 25>>).day }

\* midnight and the last millisecond of a day
TimesOfDay == {0, 86399999}

TodayIdle ==
    /\ today = [day |-> parseDate(<<2024, 2, 27>>).day, time |-> 0]
    /\ lastThreeYears = getLastThreeYearsRange(today)

ViewIdle ==
    /\ vStore = emptyStoreInitial
    /\ response = NoResponse
    /\ sortedAddresses = <<>>
    /\ TodayIdle

\* store.json gains an address before any route is called
SeedAddress ==
    /\ response = NoResponse
    /\ Len(vStore.addresses) < MaxAddrs
    /\ \E a \in ViewAddresses :
          vStore' = [vStore EXCEPT !.addresses =
                        Append(@, [id |-> FreshAddressId,
                                   startDate |-> a.startDate,
                                   endDate |-> a.endDate,
                                   createdAt |-> a.createdAt])]
    /\ UNCHANGED <<response, sortedAddresses, today, lastThreeYears>>
    /\ UNCHANGED <<gapVars, storeVars>>

\* store.json gains a document of one of its addresses
SeedDocument ==
    /\ response = NoResponse
    /\ Len(vStore.documents) < MaxDocs
    /\ \E i \in 1..Len(vStore.addresses) :
          vStore' = [vStore EXCEPT !.documents =
                        Append(@, [id |-> FreshDocumentId,
                                   addressId |-> vStore.addresses[i].id])]
    /\ UNCHANGED <<response, sortedAddresses, today, lastThreeYears>>
    /\ UNCHANGED <<gapVars, storeVars>>

\* the page's refresh: GET /api/addresses, setAddresses, the memo
ListAddresses ==
    /\ response' = [route |-> "addresses",
                    addresses |-> sortAddresses(vStore.addresses),
                    documents |-> vStore.documents]
    /\ sortedAddresses' = pageSortedAddresses(response'.addresses)
    /\ UNCHANGED <<vStore, today, lastThreeYears>>
    /\ UNCHANGED <<gapVars, storeVars>>

\* GET /api/export with start and end given
ExportZip ==
    /\ LET filteredAddresses ==
               zipFilteredAddresses(vStore, gRange.start, gRange.end)
       IN  response' = [route |-> "export",
                        addresses |-> filteredAddresses,
                        documents |-> documentsOf(vStore, filteredAddresses)]
    /\ UNCHANGED <<vStore, sortedAddresses, today, lastThreeYears>>
    /\ UNCHANGED <<gapVars, storeVars>>

\* GET /api/export/pdf with start and end given
ExportPdf ==
    /\ LET filteredAddresses ==
               pdfFilteredAddresses(vStore, gRange.start, gRange.end)
       IN  response' = [route |-> "export/pdf",
                        addresses |-> filteredAddresses,
                        documents |-> documentsOf(vStore, filteredAddresses)]
    /\ UNCHANGED <<vStore, sortedAddresses, today, lastThreeYears>>
    /\ UNCHANGED <<gapVars, storeVars>>

ViewNext ==
    \/ SeedAddress
    \/ SeedDocument
    \/ ListAddresses
    \/ ExportZip
    \/ ExportPdf

\* the clock moves on to the end of the day, then to the next midnight
AdvanceToday ==
    /\ \E start \in TodayStarts :
          start <= today.day /\ today.day < start + MaxDays
    /\ today' = IF today.time = 0 THEN [today EXCEPT !.time = 86399999]
                ELSE [day |-> today.day + 1, time |-> 0]
    /\ lastThreeYears' = getLastThreeYearsRange(today')
    /\ UNCHANGED <<vStore, response, sortedAddresses>>
    /\ UNCHANGED <<gapVars, storeVars>>

AllIdle == \A q \in Procs : proc[q].pc = "idle"

GapIdle ==
    /\ gRange = [start |-> <<2024, 2, 27>>, end |-> <<2024, 3, 2>>]
    /\ gAddresses = <<>>
    /\ gGaps = <<>>

\* the store as a process that has not touched it leaves it
StoreIdle ==
    /\ storeFile = [exists |-> FALSE, writers |-> {}, torn |-> FALSE,
                    data |-> emptyStoreInitial]
    /\ emptyStore = emptyStoreInitial
    /\ uploads = <<>>
    /\ nextId = 1
    /\ clock = 1
    /\ ops = 0
    /\ proc = [p \in Procs |-> IdleProc]
    /\ pre = [data |-> emptyStoreInitial, uploads |-> <<>>]
    /\ unlinked = {}

\* one handler at a time
Next == \E p \in Procs : (AllIdle /\ p = FirstCaller /\ Start(p)) \/ Step(p)

\* handlers of different callers interleave at their awaits
NextConc == \E p \in Procs : Start(p) \/ Step(p)

Init == StoreInit /\ GapIdle /\ ViewIdle

Spec == Init /\ [][Next]_vars

SpecConc == Init /\ [][NextConc]_vars

GapSpecInit == GapInit /\ ViewIdle /\ StoreIdle

SpecGaps == GapSpecInit /\ [][GapNext]_vars

GapUnparsedSpecInit == GapUnparsedInit /\ ViewIdle /\ StoreIdle

SpecGapsUnparsed == GapUnparsedSpecInit /\ [][GapAddUnparsed]_vars

ViewSpecInit == GapInit /\ ViewIdle /\ StoreIdle

SpecViews == ViewSpecInit /\ [][ViewNext]_vars

TodayInit ==
    /\ today \in [day : TodayStarts, time : {0}]
    /\ lastThreeYears = getLastThreeYearsRange(today)
    /\ vStore = emptyStoreInitial
    /\ response = NoResponse
    /\ sortedAddresses = <<>>

TodaySpecInit == GapIdle /\ TodayInit /\ StoreIdle

SpecToday == TodaySpecInit /\ [][AdvanceToday]_vars

(***************************************************************************)
(* What the claims about getCoverageGaps speak of                           *)
(***************************************************************************)
\* the date string is read as a calendar date
Parses(value) == parseDate(value).valid /\ ~parseDate(value).nan

RangeStartDay == parseDate(gRange.start).day

RangeEndDay == parseDate(gRange.end).day

\* the range the spec assumes: both ends parse and rangeStart <= rangeEnd
RangeOK ==
    /\ Parses(gRange.start)
    /\ Parses(gRange.end)
    /\ RangeStartDay <= RangeEndDay

EffectiveEnd(a) == IF a.endDate = Undefined THEN gRange.end ELSE a.endDate

\* a well-formed address interval: both dates parse, the end not before the start
WellFormed(a) ==
    /\ Parses(a.startDate)
    /\ Parses(EffectiveEnd(a))
    /\ parseDate(a.startDate).day <= parseDate(EffectiveEnd(a)).day

\* day d lies in the interval of some well-formed address of the list
Covered(d) ==
    \E i \in 1..Len(gAddresses) :
        /\ WellFormed(gAddresses[i])
        /\ parseDate(gAddresses[i].startDate).day <= d
        /\ d <= parseDate(EffectiveEnd(gAddresses[i])).day

GapStartDay(i) == parseDate(gGaps[i].start).day

GapEndDay(i) == parseDate(gGaps[i].end).day

InGap(d, i) == GapStartDay(i) <= d /\ d <= GapEndDay(i)

\* C1: completeness: every day of the range that no well-formed address
\* interval contains lies inside exactly one returned gap.
C1_GapsComplete ==
    RangeOK =>
        \A d \in RangeStartDay..RangeEndDay :
            ~Covered(d) =>
                Cardinality({i \in 1..Len(gGaps) : InGap(d, i)}) = 1

ById(seq, id) == SelectByKey(seq, "id", id)

HasFile(document) == getUploadPath(document) \in DOMAIN uploads

\* the step in which readStore of p reads the file
ReadsFile(p) == proc[p].pc = "read" /\ proc'[p] /= proc[p]

\* the step in which the handler of p returns from its last writeStore
Completes(p, opNames) ==
    /\ proc[p].pc = "wend" /\ proc[p].op \in opNames
    /\ proc'[p].ret = "ok"

\* C4: a readStore that reads while another caller's mutating operation is
\* inside its writeStore never fails and never sees a half-written snapshot:
\* it returns the whole snapshot from before the write or from after it.
C4_ReadersSeeWholeSnapshots ==
    [][\A p \in Procs :
          (/\ ReadsFile(p)
           /\ \E q \in Procs \ {p} : proc[q].pc = "wend" /\ q \in storeFile.writers)
          => /\ proc'[p].pc = "body"
             /\ \E q \in Procs \ {p} :
                   [addresses |-> proc'[p].addresses,
                    documents |-> proc'[p].documents]
                       \in {Snapshot, proc[q].wdata}]_vars

\* C5: every document record of the persisted snapshot has its backing file
\* in the uploads directory, in every reachable state.
C5_EveryRecordHasFile ==
    \A i \in 1..Len(Snapshot.documents) : HasFile(Snapshot.documents[i])

\* C5 as amended: a document record of the persisted snapshot lacks its
\* backing file only if deleteUploadFile was called for it by a
\* deleteDocument or a deleteAddress; an upload never leaves one.
C5_RecordWithoutFileOnlyByDelete ==
    \A i \in 1..Len(Snapshot.documents) :
        \/ HasFile(Snapshot.documents[i])
        \/ getUploadPath(Snapshot.documents[i]) \in unlinked

\* an upload has persisted its record while another caller was deleting
C5_Witness ==
    /\ Len(Snapshot.documents) = 4
    /\ HasFile(Snapshot.documents[4])
    /\ \E i \in 1..3 : ~HasFile(Snapshot.documents[i])

\* C6: when deleteAddress(id) returns, the snapshot holds neither the address
\* nor a document of it, none of their files remains, and every other
\* address, document and file is as it was.
C6_DeleteAddressCascades ==
    [][\A p \in Procs :
          Completes(p, {"deleteAddress"}) =>
             LET id      == proc[p].id
                 removed == SelectByKey(pre.data.documents, "addressId", id)
                 names   == {getUploadPath(removed[i]) : i \in 1..Len(removed)}
             IN  /\ ById(Snapshot'.addresses, id) = <<>>
                 /\ SelectByKey(Snapshot'.documents, "addressId", id) = <<>>
                 /\ \A i \in 1..Len(removed) :
                       ById(Snapshot'.documents, removed[i].id) = <<>>
                 /\ names \cap DOMAIN uploads' = {}
                 /\ Snapshot'.addresses = FilterSeq(pre.data.addresses, "id", id)
                 /\ Snapshot'.documents
                        = FilterSeq(pre.data.documents, "addressId", id)
                 /\ uploads' = [n \in (DOMAIN pre.uploads) \ names |->
                                   pre.uploads[n]]]_vars

\* deleteAddress has returned for an address that had two documents, and
\* another address with a document is still there
C6_Witness ==
    /\ \E p \in Procs : proc[p].op = "deleteAddress" /\ proc[p].ret = "ok"
    /\ Len(SelectByKey(pre.data.documents, "addressId", 1)) = 2
    /\ ById(Snapshot.addresses, 1) = <<>>
    /\ Len(Snapshot.addresses) = 1 /\ Len(Snapshot.documents) = 1

\* C7: when the unlink of one cascaded document fails with an error other
\* than ENOENT, deleteAddress reports the failure and the files of the other
\* cascaded documents are deleted all the same.
C7_CascadeSurvivesUnlinkError ==
    [][\A p \in Procs :
          (/\ proc[p].pc = "unlink" /\ proc[p].op = "deleteAddress"
           /\ proc'[p].ret = "unlinkError")
          => \A i \in 2..Len(proc[p].queue) :
                getUploadPath(proc[p].queue[i]) \notin DOMAIN uploads']_vars

\* C8: updateAddress on an existing id, directly or through PUT, changes only
\* the fields the request supplied and updatedAt; every other address and
\* every document is as it was.
C8_UpdateKeepsUnsuppliedFields ==
    [][\A p \in Procs :
          Completes(p, {"updateAddress", "put"}) =>
             LET id    == proc[p].id
                 index == FindIndex(pre.data.addresses, id)
             IN  /\ Len(Snapshot'.addresses) = Len(pre.data.addresses)
                 /\ \A i \in 1..Len(pre.data.addresses) :
                       IF i = index
                       THEN \A k \in AddressKeys \
                                     (DOMAIN proc[p].arg \cup {"updatedAt"}) :
                               Snapshot'.addresses[i][k]
                                   = pre.data.addresses[i][k]
                       ELSE Snapshot'.addresses[i] = pre.data.addresses[i]
                 /\ Snapshot'.documents = pre.data.documents]_vars

Distinct(seq, key) ==
    \A i, j \in 1..Len(seq) : i /= j => seq[i][key] /= seq[j][key]

\* C10: no two addresses of the snapshot share an id, and no two documents
\* share an id or a storedName.
C10_IdsUnique ==
    /\ Distinct(Snapshot.addresses, "id")
    /\ Distinct(Snapshot.documents, "id")
    /\ Distinct(Snapshot.documents, "storedName")

\* an address was deleted and another created after it
C10_Witness ==
    /\ Len(Snapshot.addresses) = 2
    /\ \E i \in 1..2 : Snapshot.addresses[i].id = 6
    /\ Len(pre.data.addresses) = 1

\* the handler of p runs one of these operations for an id the snapshot did
\* not hold when it began
OnAbsentAddress(p, opNames) ==
    /\ proc[p].op \in opNames
    /\ proc[p].pc /= "idle"
    /\ ById(pre.data.addresses, proc[p].id) = <<>>

\* C11: updateAddress (directly or through PUT) with an id that is not in the
\* snapshot returns null, and no step of it changes the persisted addresses,
\* the persisted documents or a file.
C11_UpdateOfAbsentIdChangesNothing ==
    [][\A p \in Procs :
          (OnAbsentAddress(p, {"updateAddress", "put"}) /\ proc'[p] /= proc[p])
          => /\ Snapshot' = pre.data
             /\ uploads' = pre.uploads
             /\ proc[p].pc = "body" => /\ proc'[p].ret = "null"
                                       /\ proc'[p].res = <<>>]_vars

\* an update of an id that is not there has returned null on a store that
\* holds addresses and documents
C11_Witness ==
    /\ \E p \in Procs :
          proc[p].op \in {"updateAddress", "put"} /\ proc[p].ret = "null"
    /\ Snapshot = PopulatedStore
    /\ uploads = PopulatedUploads

Ids(seq) == {seq[i].id : i \in 1..Len(seq)}

\* C12: when createAddress(fields) returns, the snapshot a readStore finds is
\* the previous addresses followed by the returned address, whose id none of
\* them (and no document) had, whose createdAt equals its updatedAt and whose
\* fields are the supplied ones; the documents are as they were.
C12_CreateAddressAppendsFreshRecord ==
    [][\A p \in Procs :
          Completes(p, {"createAddress"}) =>
             LET address == proc'[p].res[1]
             IN  /\ Snapshot'.addresses = Append(pre.data.addresses, address)
                 /\ Snapshot'.documents = pre.data.documents
                 /\ uploads' = pre.uploads
                 /\ address.id \notin Ids(pre.data.addresses)
                                         \cup Ids(pre.data.documents)
                 /\ address.createdAt = address.updatedAt
                 /\ \A k \in InputKeys :
                       Get(address, k) = Get(proc[p].arg, k)]_vars

\* createAddress has returned on a store that held addresses and documents
C12_Witness ==
    /\ \E p \in Procs : proc[p].op = "createAddress" /\ proc[p].ret = "ok"
    /\ Len(pre.data.addresses) = 2 /\ Len(pre.data.documents) = 3
    /\ Len(Snapshot.addresses) = 3
    /\ Snapshot.addresses[3].endDate = Undefined

\* a file of the uploads directory that no record of the snapshot names
OrphanFile(name) ==
    /\ name \in DOMAIN uploads
    /\ \A i \in 1..Len(Snapshot.documents) :
          getUploadPath(Snapshot.documents[i]) /= name

\* C13: createDocument writes the backing file before the record is
\* persisted: a record that enters the persisted snapshot has its file on
\* disk already, and an upload that fails on the way has persisted no record
\* (the file it wrote may stay behind).
C13_FileBeforeRecord ==
    [][/\ \A i \in 1..Len(Snapshot'.documents) :
             Snapshot'.documents[i].id \notin Ids(Snapshot.documents)
             => /\ getUploadPath(Snapshot'.documents[i]) \in DOMAIN uploads
                /\ getUploadPath(Snapshot'.documents[i]) \in DOMAIN uploads'
       /\ \A p \in Procs :
             (proc[p].op = "upload" /\ proc'[p].ret = "error")
             => /\ Snapshot' = pre.data
                /\ \A n \in DOMAIN pre.uploads :
                      n \in DOMAIN uploads' /\ uploads'[n] = pre.uploads[n]]_vars

\* an upload failed after its file was written and before its record was
\* persisted: the file is an orphan
C13_Witness ==
    /\ \E p \in Procs : proc[p].op = "upload" /\ proc[p].ret = "error"
    /\ Snapshot = PopulatedStore
    /\ \E name \in DOMAIN uploads : OrphanFile(name)

\* C14: when operations do not overlap, every document of the snapshot has
\* the addressId of an address of the snapshot.
C14_DocumentsReferenceAddresses ==
    \A i \in 1..Len(Snapshot.documents) :
        Snapshot.documents[i].addressId \in Ids(Snapshot.addresses)

\* an address with its documents was deleted and a file was then uploaded
\* for the address that is left
C14_Witness ==
    /\ \E p \in Procs : proc[p].op = "upload" /\ proc[p].ret = "ok"
    /\ Len(Snapshot.addresses) = 1
    /\ Len(Snapshot.documents) = 2
    /\ Snapshot.documents[2].id = 6

\* the step in which readStore of p, having found no store.json, returns
BootstrapReturns(p) == proc[p].pc = "bootw" /\ proc'[p].pc = "body"

\* C15: a readStore that found no snapshot file persists empty addresses and
\* empty documents and returns empty collections, whatever ran earlier in
\* the process.
C15_BootstrapIsEmpty ==
    [][\A p \in Procs :
          BootstrapReturns(p)
          => /\ Snapshot' = emptyStoreInitial
             /\ emptyStore'.addresses = <<>>
             /\ emptyStore'.documents = <<>>]_vars

\* C16: deleteDocument(id) on an id no document has returns null and changes
\* neither the snapshot nor a file; on the id of a document it returns that
\* record, and the snapshot is the old one without exactly that record, the
\* uploads the old ones without its file (which may have been absent), all
\* addresses and every other document and file as they were.
C16_DeleteDocumentRemovesOneRecord ==
    [][\A p \in Procs :
          LET hits == ById(pre.data.documents, proc[p].id)
          IN  /\ (proc[p].pc = "body" /\ proc[p].op = "deleteDocument"
                     /\ proc'[p] /= proc[p])
                 => IF hits = <<>>
                    THEN /\ proc'[p].ret = "null" /\ proc'[p].res = <<>>
                         /\ Snapshot' = pre.data
                         /\ uploads' = pre.uploads
                    ELSE proc'[p].pc = "unlink"
              /\ Completes(p, {"deleteDocument"})
                 => /\ Len(hits) = 1
                    /\ proc'[p].res = hits
                    /\ Snapshot'.addresses = pre.data.addresses
                    /\ Snapshot'.documents
                           = FilterSeq(pre.data.documents, "id", proc[p].id)
                    /\ Len(Snapshot'.documents) = Len(pre.data.documents) - 1
                    /\ uploads' = RemoveFile(pre.uploads,
                                             getUploadPath(hits[1]))]_vars

\* deleteDocument has returned the record of a document whose file was
\* absent already
C16_Witness ==
    /\ \E p \in Procs :
          /\ proc[p].op = "deleteDocument" /\ proc[p].ret = "ok"
          /\ Len(proc[p].res) = 1
          /\ getUploadPath(proc[p].res[1]) \notin DOMAIN pre.uploads
          /\ proc[p].res[1].id \in Ids(pre.data.documents)
          /\ proc[p].res[1].id \notin Ids(Snapshot.documents)
    /\ Len(Snapshot.documents) = 2

\* deleteDocument has returned null for an id no document has
C16_WitnessNotFound ==
    /\ \E p \in Procs : proc[p].op = "deleteDocument" /\ proc[p].ret = "null"
    /\ Snapshot = PopulatedStore

\* C17: deleteAddress with an id that is not in the snapshot (never there,
\* or deleted by the deleteAddress before) throws nothing of its own, goes
\* on to writeStore, and no step of it changes the persisted addresses, the
\* persisted documents or a file.
C17_DeleteAddressIdempotent ==
    [][\A p \in Procs :
          (OnAbsentAddress(p, {"deleteAddress"}) /\ proc'[p] /= proc[p])
          => /\ Snapshot' = pre.data
             /\ uploads' = pre.uploads
             /\ proc[p].pc = "body" => proc'[p].pc = "wbegin"
             /\ proc'[p].ret \notin {"null", "unlinkError"}]_vars

\* the second deleteAddress(1) in a row is about to complete its writeStore
\* with the snapshot the first one left
C17_Witness ==
    \E p \in Procs :
        /\ proc[p].op = "deleteAddress" /\ proc[p].pc = "wend"
        /\ proc[p].id = 1
        /\ pre.data.addresses = <<AddressA2>>
        /\ Len(pre.data.documents) = 1
        /\ proc[p].wdata = pre.data
        /\ uploads = pre.uploads

\* the whole range as one gap, as getCoverageGaps writes it for no intervals
FullRangeGap ==
    [start |-> gRange.start, end |-> gRange.end,
     isLeading |-> TRUE, isTrailing |-> TRUE]

\* C18: for an empty address list and a range with rangeStart <= rangeEnd the
\* result is exactly one gap, from rangeStart to rangeEnd as the range gives
\* them, with isLeading and isTrailing both true.
C18_NoAddressesOneGap ==
    (gAddresses = <<>> /\ RangeOK) => gGaps = <<FullRangeGap>>

\* no address, and a range whose end is written with an overflowing day
C18_Witness ==
    /\ gAddresses = <<>>
    /\ RangeOK
    /\ gRange.end = <<2024, 2, 30>>
    /\ Len(gGaps) = 1

\* the interval of address a lies entirely outside the range
OutsideRange(a) ==
    /\ WellFormed(a)
    /\ \/ parseDate(EffectiveEnd(a)).day < RangeStartDay
       \/ parseDate(a.startDate).day > RangeEndDay

\* C19: when every address of a non-empty list is malformed or lies entirely
\* outside the range, the result is exactly one gap that spans the range,
\* flagged leading and trailing.
C19_NothingInsideOneGap ==
    (/\ RangeOK
     /\ gAddresses /= <<>>
     /\ \A i \in 1..Len(gAddresses) :
           ~WellFormed(gAddresses[i]) \/ OutsideRange(gAddresses[i]))
    => /\ Len(gGaps) = 1
       /\ GapStartDay(1) = RangeStartDay
       /\ GapEndDay(1) = RangeEndDay
       /\ gGaps[1].isLeading /\ gGaps[1].isTrailing

\* the addresses, in the order of the list, are contiguous and cover the
\* range exactly
CoversExactly ==
    /\ RangeOK
    /\ gAddresses /= <<>>
    /\ \A i \in 1..Len(gAddresses) : WellFormed(gAddresses[i])
    /\ parseDate(gAddresses[1].startDate).day = RangeStartDay
    /\ parseDate(EffectiveEnd(gAddresses[Len(gAddresses)])).day = RangeEndDay
    /\ \A i \in 1..(Len(gAddresses) - 1) :
          parseDate(gAddresses[i + 1].startDate).day
              = parseDate(EffectiveEnd(gAddresses[i])).day + 1

\* C20: for non-overlapping contiguous address intervals that cover the
\* range exactly, the result is the empty list.
C20_ExactCoverNoGaps == CoversExactly => gGaps = <<>>

\* two contiguous addresses cover a range of several days
C20_Witness ==
    /\ CoversExactly
    /\ Len(gAddresses) = 2
    /\ RangeEndDay - RangeStartDay >= 2
    /\ gGaps = <<>>

\* address i ends on a day D and address i + 1 starts on D + 1: the two are
\* the halves of the interval from the start of i to the end of i + 1
SplitAt(i) ==
    /\ i \in 1..(Len(gAddresses) - 1)
    /\ gAddresses[i].endDate /= Undefined
    /\ WellFormed(gAddresses[i]) /\ WellFormed(gAddresses[i + 1])
    /\ parseDate(gAddresses[i + 1].startDate).day
           = parseDate(gAddresses[i].endDate).day + 1

\* the list with addresses i and i + 1 replaced by the one interval
Unsplit(i) ==
    [j \in 1..(Len(gAddresses) - 1) |->
        IF j < i THEN gAddresses[j]
        ELSE IF j = i THEN [startDate |-> gAddresses[i].startDate,
                            endDate   |-> gAddresses[i + 1].endDate]
        ELSE gAddresses[j + 1]]

\* C21: an interval [S, E] and its two adjacent halves [S, D], [D + 1 day, E]
\* give the same gaps, whatever the other addresses and the range.
C21_SplitIntervalSameGaps ==
    \A i \in 1..(Len(gAddresses) - 1) :
        SplitAt(i) => gGaps = getCoverageGaps(Unsplit(i), gRange)

\* the halves meet across the leap day inside the range, and gaps remain
\* on both sides
C21_Witness ==
    /\ RangeOK
    /\ SplitAt(1)
    /\ parseDate(gAddresses[1].startDate).day > RangeStartDay
    /\ parseDate(gAddresses[1].endDate).day = parseDate(<<2024, 2, 29>>).day
    /\ Len(gGaps) = 2

\* address a lies inside the range
InsideRange(a) ==
    /\ WellFormed(a)
    /\ parseDate(a.startDate).day >= RangeStartDay
    /\ parseDate(EffectiveEnd(a)).day <= RangeEndDay

\* the list is two intervals inside the range, prev and next, with at least
\* one day between them
HoleBetween(prev, next) ==
    /\ RangeOK
    /\ Len(gAddresses) = 2
    /\ {prev, next} = {1, 2}
    /\ InsideRange(gAddresses[prev]) /\ InsideRange(gAddresses[next])
    /\ parseDate(gAddresses[next].startDate).day
           > parseDate(EffectiveEnd(gAddresses[prev])).day + 1

\* the gaps of the result that are neither leading nor trailing
InternalGapIndexes ==
    {i \in 1..Len(gGaps) : ~gGaps[i].isLeading /\ ~gGaps[i].isTrailing}

\* C22: two well-formed intervals inside the range with at least one
\* uncovered day between them give exactly one gap with both flags false,
\* from the day after the first ends to the day before the second starts.
C22_HoleIsOneInternalGap ==
    \A prev, next \in 1..2 :
        HoleBetween(prev, next)
        => /\ Cardinality(InternalGapIndexes) = 1
           /\ \A i \in InternalGapIndexes :
                 /\ GapStartDay(i)
                        = parseDate(EffectiveEnd(gAddresses[prev])).day + 1
                 /\ GapEndDay(i)
                        = parseDate(gAddresses[next].startDate).day - 1

\* the later interval comes first in the list, and the hole holds the leap
\* day
C22_Witness ==
    /\ HoleBetween(2, 1)
    /\ \E i \in InternalGapIndexes :
          GapStartDay(i) <= parseDate(<<2024, 2, 29>>).day
              /\ parseDate(<<2024, 2, 29>>).day <= GapEndDay(i)

\* the addresses of the list that are well-formed, in the list's order
WellFormedOnly == SelectSeq(gAddresses, WellFormed)

LeadingGapIndexes == {i \in 1..Len(gGaps) : gGaps[i].isLeading}

TrailingGapIndexes == {i \in 1..Len(gGaps) : gGaps[i].isTrailing}

\* C24: a gap is flagged leading exactly when it starts at rangeStart and
\* trailing exactly when it ends at rangeEnd; at most one gap is leading, at
\* most one trailing, and only the single gap that spans the whole range
\* carries both flags.
C24_FlagsMarkRangeEnds ==
    /\ \A i \in 1..Len(gGaps) :
          /\ gGaps[i].isLeading <=> (GapStartDay(i) = RangeStartDay)
          /\ gGaps[i].isTrailing <=> (GapEndDay(i) = RangeEndDay)
          /\ (gGaps[i].isLeading /\ gGaps[i].isTrailing) => Len(gGaps) = 1
    /\ Cardinality(LeadingGapIndexes) <= 1
    /\ Cardinality(TrailingGapIndexes) <= 1

\* a leading, an internal and a trailing gap around two addresses
C24_Witness ==
    /\ Len(gAddresses) = 2
    /\ Len(gGaps) = 3
    /\ gGaps[1].isLeading /\ ~gGaps[1].isTrailing
    /\ ~gGaps[2].isLeading /\ ~gGaps[2].isTrailing
    /\ gGaps[3].isTrailing /\ ~gGaps[3].isLeading

\* the addresses of list in canonical order: start dates ascending, equal
\* start dates by creation time ascending
CanonicalOrder(list) ==
    \A i, j \in 1..Len(list) :
        i < j => \/ parseDate(list[i].startDate).day
                        < parseDate(list[j].startDate).day
                 \/ /\ list[i].startDate = list[j].startDate
                    /\ list[i].createdAt <= list[j].createdAt

\* list holds exactly the addresses of the store, each once
PermutationOfStore(list) ==
    /\ Len(list) = Len(vStore.addresses)
    /\ \A i \in 1..Len(vStore.addresses) :
          \E j \in 1..Len(list) : list[j] = vStore.addresses[i]

\* what remains of the listing when only the addresses of list are kept
ListingOf(list) ==
    LET kept(a) == \E i \in 1..Len(list) : list[i] = a
    IN  SelectSeq(sortAddresses(vStore.addresses), kept)

\* C25: the listing is a permutation of the stored addresses in canonical
\* order (start date, then creation time), the page shows it in that order,
\* and each export presents its addresses in canonical order, that is in
\* the relative order the listing gives them.
C25_CanonicalOrderEverywhere ==
    /\ response.route = "addresses"
          => /\ PermutationOfStore(response.addresses)
             /\ CanonicalOrder(response.addresses)
             /\ sortedAddresses = response.addresses
    /\ response.route \in {"export", "export/pdf"}
          => /\ CanonicalOrder(response.addresses)
             /\ response.addresses = ListingOf(response.addresses)

\* two addresses with the same start date, stored with the later created
\* one first, are listed the other way round
C25_Witness ==
    /\ response.route = "addresses"
    /\ Len(vStore.addresses) = 2
    /\ vStore.addresses[1].startDate = vStore.addresses[2].startDate
    /\ vStore.addresses[1].createdAt > vStore.addresses[2].createdAt
    /\ response.addresses[1] = vStore.addresses[2]
    /\ sortedAddresses = response.addresses

\* name ends in an extension: a dot that is not its first character, with
\* no dot after it
EndsInExtension(name, ext) ==
    /\ Len(ext) >= 1 /\ Len(ext) < Len(name)
    /\ ext = SubSeq(name, Len(name) - Len(ext) + 1, Len(name))
    /\ ext[1] = "."
    /\ \A i \in 2..Len(ext) : ext[i] /= "."

\* the extension a stored name is to end in
ExpectedExtension(name, mimeType) ==
    IF \E n \in 1..Len(name) : EndsInExtension(name, SubSeq(name, n, Len(name)))
    THEN CHOOSE ext \in {SubSeq(name, n, Len(name)) : n \in 1..Len(name)} :
             EndsInExtension(name, ext)
    ELSE IF mimeType = "application/pdf" THEN <<".", "p", "d", "f">>
    ELSE IF mimeType = "image/png" THEN <<".", "p", "n", "g">>
    ELSE IF mimeType = "image/jpeg" THEN <<".", "j", "p", "g">>
    ELSE <<>>

OriginalNames ==
    { <<"t">>, <<"s", ".", "p", "n", "g">>, <<".", "e", "n", "v">>,
      <<"a", ".", "b", ".", "c">> }

MimeTypes == {"application/pdf", "image/png", "image/jpeg", "text/plain"}

\* C26: when createDocument has succeeded, the file at getUploadPath of the
\* returned document holds exactly the bytes supplied, the returned record
\* is in the snapshot, and its storedName is its id followed by the
\* extension of originalName when it has one, otherwise by .pdf, .png or
\* .jpg for the three known mime types, otherwise by nothing.
C26_CreateDocumentRoundTrip ==
    [][/\ \A p \in Procs :
             Completes(p, {"upload"})
             => LET document == proc[p].res[1]
                IN  /\ getUploadPath(document) \in DOMAIN uploads'
                    /\ uploads'[getUploadPath(document)] = proc[p].data
                    /\ ById(Snapshot'.documents, document.id) = <<document>>
                    /\ proc'[p].res = <<document>>
                    /\ document.originalName = proc[p].arg.name
                    /\ document.storedName
                          = <<document.id>>
                              \o ExpectedExtension(proc[p].arg.name,
                                                   proc[p].arg.type)
       /\ \A name \in OriginalNames, mimeType \in MimeTypes :
             resolveExtension(name, mimeType)
                 = ExpectedExtension(name, mimeType)]_vars

\* an upload of a file named without an extension has returned: its stored
\* name ends in .pdf and the file holds the bytes sent
C26_Witness ==
    \E p \in Procs :
        /\ proc[p].op = "upload" /\ proc[p].ret = "ok"
        /\ proc[p].res[1].originalName = <<"t">>
        /\ proc[p].res[1].storedName
              = <<proc[p].res[1].id, ".", "p", "d", "f">>
        /\ uploads[getUploadPath(proc[p].res[1])] = "b2"
        /\ ById(Snapshot.documents, proc[p].res[1].id) = <<proc[p].res[1]>>

TodayYear == getUTCFullYear(today.day)

TodayMonth == getUTCMonth(today.day) + 1

TodayDate == getUTCDate(today.day)

\* the number of days of month m (1-based) in year y
DaysInMonth(y, m) ==
    IF m = 2 THEN (IF IsLeapYear(y) THEN 29 ELSE 28)
    ELSE IF m \in {4, 6, 9, 11} THEN 30 ELSE 31

C28_UpdatePersistsOwnCopy ==
    [][\A p \in Procs :
          Completes(p, {"updateAddress", "put"})
          => /\ Snapshot' = proc[p].wdata
             /\ proc'[p].res /= <<>>
                   => ById(Snapshot'.addresses, proc'[p].res[1].id)
                          = proc'[p].res]_vars

\* both updates have returned their records, for different addresses, and
\* the snapshot holds the one while the other address is as it was before
C28_Witness ==
    \E p, q \in Procs :
        /\ proc[p].op = "updateAddress" /\ proc[p].ret = "ok"
        /\ proc[q].op = "updateAddress" /\ proc[q].ret = "ok"
        /\ proc[p].res /= <<>> /\ proc[q].res /= <<>>
        /\ proc[p].res[1].id = 1 /\ proc[q].res[1].id = 2
        /\ ById(Snapshot.addresses, 1) = proc[p].res
        /\ ById(Snapshot.addresses, 2) = <<AddressA2>>
        /\ proc[q].res[1] /= AddressA2

\* the gap engine counts address a as coverage of the range: it is
\* well-formed and has a day in the range
Contributes(a) == RangeOK /\ WellFormed(a) /\ ~OutsideRange(a)

Exported(a) == \E i \in 1..Len(response.addresses) : response.addresses[i] = a

\* C29: an export includes an address exactly when the gap engine counts it
\* as coverage of the export range (well-formed and intersecting the range),
\* and the ZIP and the PDF export select the same addresses and documents.
C29_ExportsWhatContributes ==
    response.route \in {"export", "export/pdf"}
    => /\ \A i \in 1..Len(vStore.addresses) :
             Exported(vStore.addresses[i]) <=> Contributes(vStore.addresses[i])
       /\ response.addresses
             = zipFilteredAddresses(vStore, gRange.start, gRange.end)
       /\ response.addresses
             = pdfFilteredAddresses(vStore, gRange.start, gRange.end)
       /\ response.documents = documentsOf(vStore, response.addresses)

\* the documents address a had when the last handler started
DocumentsOfAddress(a) == SelectByKey(pre.data.documents, "addressId", a)

\* the deleteAddress of q has returned, and it was called on address a: the
\* files of the documents of a are the ones it unlinked
DeleteAddressReturned(q, a) ==
    /\ proc[q].op = "deleteAddress" /\ proc[q].ret = "ok"
    /\ \E i \in 1..Len(DocumentsOfAddress(a)) :
          getUploadPath(DocumentsOfAddress(a)[i]) \in unlinked

\* the upload of p for address a has returned its document
UploadReturned(p, a) ==
    /\ proc[p].op = "upload" /\ proc[p].ret = "ok"
    /\ proc[p].res[1].addressId = a

NoDanglingDocument ==
    \A i \in 1..Len(Snapshot.documents) :
        Snapshot.documents[i].addressId \in Ids(Snapshot.addresses)

NotResurrected(a) ==
    /\ a \notin Ids(Snapshot.addresses)
    /\ \A i \in 1..Len(DocumentsOfAddress(a)) :
          DocumentsOfAddress(a)[i].id \notin Ids(Snapshot.documents)

\* C30: when an upload for an address and a deleteAddress of that address
\* have interleaved and both have returned, no document of the snapshot
\* names an address the snapshot lacks, and the snapshot holds neither the
\* deleted address nor the documents deleted with it.
C30_UploadAgainstDeleteAddress ==
    \A p, q \in Procs :
        \A a \in Ids(pre.data.addresses) :
            (UploadReturned(p, a) /\ DeleteAddressReturned(q, a))
            => NoDanglingDocument /\ NotResurrected(a)

\* C31: when the range start or the range end does not parse, or the end
\* precedes the start, the result is the empty list, whatever the addresses.
C31_BadRangeNoGaps == ~RangeOK => gGaps = <<>>

\* the orders the addresses of the list can be handed over in
Orderings ==
    {f \in [1..Len(gAddresses) -> 1..Len(gAddresses)] :
        \A i, j \in 1..Len(gAddresses) : f[i] = f[j] => i = j}

Reordered(f) == [i \in 1..Len(gAddresses) |-> gAddresses[f[i]]]

\* C32: the gaps do not depend on the order of the address list: every
\* permutation of the same addresses gives the same gaps, for every range.
C32_OrderOfAddressesIrrelevant ==
    \A f \in Orderings : getCoverageGaps(Reordered(f), gRange) = gGaps

=============================================================================
